---------------------------- MODULE Spec2Model ----------------------------
(***************************************************************************)
(* rbmini: RaceBox Mini telemetry over BLE.                                *)
(*                                                                         *)
(*   message.rs     rb_checksum, decode_rb_message, RbMessage              *)
(*   connection.rs  RbManager::connect, RbConnection::stream               *)
(*   bin/main.rs    the channel of 32 slots and the consumer loop          *)
(*                                                                         *)
(* Bytes are the integers 0 .. 255.  Rust slices are indexed from 0, TLA+  *)
(* sequences from 1: the byte the source calls raw[i] is raw[i + 1] here.  *)
(***************************************************************************)
EXTENDS Integers, Sequences, FiniteSets, TLC

VARIABLES
    ck_raw,         \* rb_checksum: the buffer passed as `raw`
    ck_out,         \* rb_checksum: "none" before the call, then "true" | "false" | "panic"
    dec_raw,        \* decode_rb_message: the buffer passed as `raw`
    dec_edits,      \* number of bytes of the reference frame that were overwritten
    dec_out,        \* decode_rb_message: outcome "none" before the call, then
                    \* "message" with the record in msg, or "panic"
    peripherals,    \* RbManager.peripherals, in discovery order
    cn_pc,          \* connect(): "iterating" | "returned_ok" | "returned_err" | "panicked"
    cn_next,        \* connect(): index of the peripheral the for loop comes to next
    cn_connection,  \* connect(): the RbConnection returned, <<>> before
    cn_examined,    \* the peripherals the loop has looked at, in order
    cn_attempts,    \* per peripheral, the number of link-level connect() calls
    characteristics,\* peripheral.characteristics(), in the set's iteration order
    st_pc,          \* stream(): where the task stands, or how it ended
    st_ci,          \* stream(): index of the characteristic the for loop is at
    st_data,        \* stream(): the notification held by the pending send, 0 if none
    st_taken,       \* the notifications stream() has taken from the radio layer
    st_discovery,   \* what discover_services() answered: "none" | "ok" | "failed"
    st_subscribed,  \* number of subscribe() calls that succeeded
    st_exit,        \* why the receive loop last ended: "none" | "source_closed" | "sink_closed"
    queue,          \* the payloads buffered in the channel, oldest first
    mn_pc,          \* main's consumer loop: "recv" | "panicked"
    mn_none,        \* recv() has returned None to the consumer loop
    received,       \* the payloads the consumer has received from the channel
    cs_channel,     \* consumer loop: the byte payloads the channel still holds
    cs_pc,          \* consumer loop: "recv" | "panicked"
    checksum_failures, \* main's counter of payloads that failed rb_checksum
    cs_processed,   \* per payload received, what the loop body did with it
    cs_sender,      \* consumer loop: the channel's Sender, "alive" | "dropped"
    cs_none,        \* consumer loop: recv() has returned None
    mg_manager,     \* new(): what Manager::new() answers, "Ok" | "Err"
    mg_adapters,    \* new(): what manager.adapters() answers, "Ok" | "Err"
    adapter_list,   \* new(): the adapters, each with what its calls answer
    mg_pc,          \* new(): "setup" | "scanning" | "returned_ok" | "returned_err" | "panicked"
    mg_next,        \* new(): index of the adapter the for loop comes to next
    mg_peripherals, \* new(): the local `peripherals`, then RbManager.peripherals
    mg_error,       \* new(): the message of the Err returned, "" if none
    fl_msg,         \* the flag bytes of the RbMessage the accessors are called on
    fl_pc,          \* accessors: "ready" | "done"
    fl_out          \* accessors: what each of them returned

ck_vars == <<ck_raw, ck_out>>
dec_vars == <<dec_raw, dec_edits, dec_out>>
cn_vars == <<peripherals, cn_pc, cn_next, cn_connection, cn_examined, cn_attempts>>
st_vars == <<characteristics, st_pc, st_ci, st_data, st_taken, st_discovery,
             st_subscribed, st_exit, queue, mn_pc, mn_none, received>>
cs_vars == <<cs_channel, cs_pc, checksum_failures, cs_processed, cs_sender, cs_none>>
mg_vars == <<mg_manager, mg_adapters, adapter_list, mg_pc, mg_next, mg_peripherals,
             mg_error>>
fl_vars == <<fl_msg, fl_pc, fl_out>>
vars == <<ck_vars, dec_vars, cn_vars, st_vars, cs_vars, mg_vars, fl_vars>>

(***************************************************************************)
(* Bounds of the model.                                                    *)
(***************************************************************************)
\* Longest buffer, other than the reference frames, handed to rb_checksum.
MaxFrameLen == 5
\* Most bytes of the reference frame overwritten before it is decoded.
MaxEdits == 1

\* Most peripherals the scan has collected.
MaxPeripherals == 2

\* Most characteristics discovered on the peripheral.
MaxCharacteristics == 2
\* Most notifications the radio layer delivers in one run.
MaxNotifications == 33

\* Byte values the enumerated buffers are built from: both ends of the range
\* and both sides of the sign bit, so that the u8 accumulators wrap.
ByteVals == {0, 1, 128, 255}
\* Byte values written over the reference frame: sign bit set, and all ones.
EditVals == {128, 255}

(***************************************************************************)
(* The example packet of message.rs, and the same packet with its two      *)
(* trailer bytes replaced by FF FF.                                        *)
(***************************************************************************)
ReferenceFrame ==
    << 181,  98, 255,   1,  80,   0, 160, 231,  12,   7, 230,
         7,   1,  10,   8,  51,   8,  55,  25,   0,   0,   0,
        42, 173,  77,  14,   3,   1, 234,  11, 198, 147, 225,
        13,  59,  55, 111,  25,  97, 140,   9,   0,  15,   1,
         9,   0, 156,   3,   0,   0,  44,   7,   0,   0,  35,
         0,   0,   0,   0,   0,   0,   0, 208,   0,   0,   0,
       136, 169, 221,   0,  44,   1,   0,  89, 253, 255, 113,
         0, 206,   3,  47, 255,  86,   0, 252, 255,   6, 219 >>

BadChecksumFrame ==
    [i \in 1..Len(ReferenceFrame) |->
        IF i > Len(ReferenceFrame) - 2 THEN 255 ELSE ReferenceFrame[i]]

(***************************************************************************)
(* rb_checksum (message.rs)                                                *)
(***************************************************************************)
\* Iterator::take(n): the first n items, or all of them when there are fewer.
Take(s, n) == SubSeq(s, 1, IF n < Len(s) THEN n ELSE Len(s))

\* Iterator::skip(n): what follows the first n items, nothing when there are fewer.
Skip(s, n) == SubSeq(s, n + 1, Len(s))

\* u8::overflowing_add, first component: the sum wrapped to 8 bits.
overflowing_add(a, b) == (a + b) % 256

\* One pass of the for loop's body over `byte`, ck = <<ck_a, ck_b>>.
ChecksumStep(ck, byte) ==
    <<overflowing_add(ck[1], byte),
      overflowing_add(ck[2], overflowing_add(ck[1], byte))>>

\* A pair of u8 accumulators.
U8 == 0..255

\* The for loop: the body applied to every byte of `bytes` in order.  The
\* sequence is split in two to keep the evaluation shallow: the first half
\* is run from ck, the second half from what the first half left.
RECURSIVE ChecksumLoop(_, _)
ChecksumLoop(bytes, ck) ==
    IF Len(bytes) = 0 THEN ck
    ELSE IF Len(bytes) = 1 THEN ChecksumStep(ck, bytes[1])
    ELSE LET half == Len(bytes) \div 2
             first == ChecksumLoop(SubSeq(bytes, 1, half), ck)
         IN  IF first[1] \in U8 /\ first[2] \in U8
             THEN ChecksumLoop(SubSeq(bytes, half + 1, Len(bytes)), first)
             ELSE first

\* The bytes the loop visits: raw.iter().take(raw.len() - 2).skip(2).
\* Variant for sensitivity analysis of C23: the byte at index 2 is skipped too.
CoveredBytesSkip3(raw) == Skip(Take(raw, Len(raw) - 2), 3)
\* Variant for sensitivity analysis of C1: only the first byte is skipped.
CoveredBytesSkip1(raw) == Skip(Take(raw, Len(raw) - 2), 1)
CoveredBytes(raw) == Skip(Take(raw, Len(raw) - 2), 2)

\* rb_checksum(raw).  raw.len() - 2 is a usize subtraction: for a buffer of
\* fewer than 2 bytes it panics in a build with overflow checks, and wraps
\* without them, after which raw[raw.len() - 2] is out of range and panics.
\* Either way the call panics.
rb_checksum(raw) ==
    IF Len(raw) < 2 THEN "panic"
    ELSE LET ck == ChecksumLoop(CoveredBytes(raw), <<0, 0>>)
         IN  IF ck[1] = raw[Len(raw) - 1] /\ ck[2] = raw[Len(raw)]
             THEN "true" ELSE "false"

\* Buffers of every length up to MaxFrameLen over ByteVals, and the two
\* frames of test_rb_checksum.
RECURSIVE SeqsOfLen(_, _)
SeqsOfLen(S, n) ==
    IF n = 0 THEN {<<>>}
    ELSE {Append(s, x) : s \in SeqsOfLen(S, n - 1), x \in S}

ChecksumInputs ==
    UNION {SeqsOfLen(ByteVals, n) : n \in 0..MaxFrameLen}
        \cup {ReferenceFrame, BadChecksumFrame}

ChecksumIdle == ck_raw = <<>> /\ ck_out = "idle"

ChecksumInit == ck_raw \in ChecksumInputs /\ ck_out = "none"

CallRbChecksum ==
    /\ ck_out = "none"
    /\ ck_out' = rb_checksum(ck_raw)
    /\ UNCHANGED ck_raw

(***************************************************************************)
(* decode_rb_message (message.rs): bincode::deserialize into RbMessage.    *)
(* bincode's default configuration reads the fields in declaration order,  *)
(* nested structs in place, every integer at its fixed width in            *)
(* little-endian byte order, and ignores bytes left after the last field.  *)
(* A field is <<name, width in bytes, kind>>, kind "u" or "i".             *)
(***************************************************************************)
RbHeader == << <<"start", 2, "u">>, <<"class", 2, "u">>, <<"length", 2, "u">> >>

\* Variant for sensitivity analysis of C2: latitude declared before longitude.
CoordinatesLatFirst == << <<"latitude", 4, "i">>, <<"longitude", 4, "i">> >>
Coordinates == << <<"longitude", 4, "i">>, <<"latitude", 4, "i">> >>

Datetime ==
    << <<"year", 2, "u">>, <<"month", 1, "u">>, <<"day", 1, "u">>,
       <<"hour", 1, "u">>, <<"minute", 1, "u">>, <<"second", 1, "u">> >>

RbChecksum == << <<"checksum", 2, "u">> >>

RbMessage ==
    RbHeader
    \o << <<"itow", 4, "u">> >>
    \o Datetime
    \o << <<"validity", 1, "u">>,
          <<"time_accuracy", 4, "u">>,
          <<"nanoseconds", 4, "i">>,
          <<"fix_status", 1, "u">>,
          <<"fix_status_flags", 1, "u">>,
          <<"date_time_flags", 1, "u">>,
          <<"number_of_svs", 1, "u">> >>
    \o Coordinates
    \o << <<"wgs_altitude", 4, "i">>,
          <<"msl_altitude", 4, "i">>,
          <<"horizontal_accuracy", 4, "u">>,
          <<"vertical_accuracy", 4, "u">>,
          <<"speed", 4, "i">>,
          <<"heading", 4, "i">>,
          <<"speed_accuracy", 4, "u">>,
          <<"heading_accuracy", 4, "u">>,
          <<"pdop", 2, "u">>,
          <<"lat_lon_flags", 1, "u">>,
          <<"battery_status", 1, "u">>,
          <<"g_force_x", 2, "i">>,
          <<"g_force_y", 2, "i">>,
          <<"g_force_z", 2, "i">>,
          <<"rot_rate_x", 2, "i">>,
          <<"rot_rate_y", 2, "i">>,
          <<"rot_rate_z", 2, "i">> >>
    \o RbChecksum

\* A u32 does not fit the model checker's integers: it is kept as its two
\* 16-bit halves, <<high, low>>.
U32(hi, lo) == <<hi, lo>>

\* The little-endian value of the (1 or 2) bytes of `bytes`.
LittleEndian16(bytes) ==
    IF Len(bytes) = 1 THEN bytes[1] ELSE bytes[1] + 256 * bytes[2]

\* Two's complement reading of an unsigned value of `bits` bits, bits <= 16.
Signed16(v, bits) ==
    IF bits = 8 THEN (IF v >= 128 THEN v - 256 ELSE v)
    ELSE (IF v >= 32768 THEN v - 65536 ELSE v)

\* One integer of `width` bytes read from `bytes` (exactly `width` long).
ReadInt(bytes, width, kind) ==
    IF width <= 2
    THEN LET v == LittleEndian16(bytes)
         IN  IF kind = "i" THEN Signed16(v, 8 * width) ELSE v
    ELSE LET lo == LittleEndian16(SubSeq(bytes, 1, 2))
             hi == LittleEndian16(SubSeq(bytes, 3, 4))
         IN  IF kind = "i" THEN Signed16(hi, 16) * 65536 + lo ELSE U32(hi, lo)

\* The bytes taken by fields lo .. hi of `schema`.
RECURSIVE SumWidths(_, _, _)
SumWidths(schema, lo, hi) ==
    IF lo > hi THEN 0
    ELSE IF lo = hi THEN schema[lo][2]
    ELSE SumWidths(schema, lo, (lo + hi) \div 2)
            + SumWidths(schema, (lo + hi) \div 2 + 1, hi)

\* Where the reader stands (0-based) when it comes to each field of RbMessage:
\* after all the fields declared before it.
FieldOffset == [k \in 1..Len(RbMessage) |-> SumWidths(RbMessage, 1, k - 1)]

FieldNames == {RbMessage[k][1] : k \in 1..Len(RbMessage)}

FieldIndex == [name \in FieldNames |-> CHOOSE k \in 1..Len(RbMessage) : RbMessage[k][1] = name]

\* deserialize::<RbMessage>(raw): every field read at the reader's position,
\* in order.  A field that reaches past the end of the input is bincode's
\* UnexpectedEof error; bytes after the last field are ignored.
deserialize(raw) ==
    IF \E k \in 1..Len(RbMessage) : FieldOffset[k] + RbMessage[k][2] > Len(raw)
    THEN [ok |-> FALSE, msg |-> <<>>]
    ELSE [ok |-> TRUE,
          msg |-> [name \in FieldNames |->
                     LET k == FieldIndex[name]
                         f == RbMessage[k]
                     IN  ReadInt(SubSeq(raw, FieldOffset[k] + 1, FieldOffset[k] + f[2]),
                                 f[2], f[3])]]

\* An outcome that carries no record.
NoMessage(outcome) == [outcome |-> outcome, msg |-> <<>>]

\* decode_rb_message(raw): deserialize(raw).unwrap().
decode_rb_message(raw) ==
    LET r == deserialize(raw)
    IN  IF r.ok THEN [outcome |-> "message", msg |-> r.msg]
        ELSE NoMessage("panic")

DecodeIdle == dec_raw = <<>> /\ dec_edits = 0 /\ dec_out = NoMessage("idle")

DecodeInit == dec_raw = ReferenceFrame /\ dec_edits = 0 /\ dec_out = NoMessage("none")

\* The caller prepares another buffer: one byte of the frame overwritten.
EditByte ==
    /\ dec_out.outcome = "none"
    /\ dec_edits < MaxEdits
    /\ \E i \in 1..Len(dec_raw), b \in EditVals :
          /\ dec_raw[i] # b
          /\ dec_raw' = [dec_raw EXCEPT ![i] = b]
    /\ dec_edits' = dec_edits + 1
    /\ UNCHANGED dec_out

\* Lengths of the buffers the caller makes of the frame: cut short (nothing,
\* one byte, the header only, one byte missing) or with bytes after the frame.
ResizedLengths == {0, 1, 6, 87, 89, 90}

\* The caller prepares a buffer of another length: the frame cut short, or
\* followed by zero bytes.
ResizeFrame ==
    /\ dec_out.outcome = "none"
    /\ Len(dec_raw) = Len(ReferenceFrame)
    /\ \E n \in ResizedLengths :
          dec_raw' = [i \in 1..n |-> IF i <= Len(dec_raw) THEN dec_raw[i] ELSE 0]
    /\ UNCHANGED <<dec_edits, dec_out>>

CallDecodeRbMessage ==
    /\ dec_out.outcome = "none"
    /\ dec_out' = decode_rb_message(dec_raw)
    /\ UNCHANGED <<dec_raw, dec_edits>>

(***************************************************************************)
(* RbManager::connect (connection.rs).  A name is a sequence of            *)
(* characters.                                                             *)
(***************************************************************************)
RACEBOX_LOCAL_NAME_PREFIX ==
    <<"R", "a", "c", "e", "B", "o", "x", " ", "M", "i", "n", "i", " ">>

\* String::from("unknown name"), the name of a peripheral that advertises none.
UnknownName == <<"u", "n", "k", "n", "o", "w", "n", " ", "n", "a", "m", "e">>

\* str::starts_with
starts_with(name, prefix) ==
    Len(name) >= Len(prefix) /\ SubSeq(name, 1, Len(prefix)) = prefix

\* str::strip_prefix(..).unwrap(), called only on a name that has the prefix.
strip_prefix(name, prefix) == SubSeq(name, Len(prefix) + 1, Len(name))

\* Names a peripheral may advertise: a RaceBox Mini with a serial, the bare
\* prefix, the family name without the separating space, another device.
AdvertisedNames ==
    { RACEBOX_LOCAL_NAME_PREFIX \o <<"4", "2">>,
      RACEBOX_LOCAL_NAME_PREFIX,
      SubSeq(RACEBOX_LOCAL_NAME_PREFIX, 1, Len(RACEBOX_LOCAL_NAME_PREFIX) - 1),
      <<"T", "V">> }

\* What the radio layer answers for one peripheral:
\*   properties    peripheral.properties(): "Err", "None" (Ok(None)) or "Some"
\*   local_name    properties.local_name, an Option: <<>> or <<name>>
\*   is_connected  peripheral.is_connected(): "Err", "true" or "false"
\*   connect       what peripheral.connect() answers if called: "Ok" or "Err"
NoName == {<<>>}

PeripheralStates ==
    [properties : {"Err", "None"}, local_name : NoName,
     is_connected : {"Err", "true"}, connect : {"Ok"}]
    \cup
    [properties : {"Err", "None"}, local_name : NoName,
     is_connected : {"false"}, connect : {"Ok", "Err"}]
    \cup
    [properties : {"Some"}, local_name : NoName \cup {<<n>> : n \in AdvertisedNames},
     is_connected : {"Err", "true"}, connect : {"Ok"}]
    \cup
    [properties : {"Some"}, local_name : NoName \cup {<<n>> : n \in AdvertisedNames},
     is_connected : {"false"}, connect : {"Ok", "Err"}]

\* local_name.unwrap_or_else(|| String::from("unknown name"))
LocalName(p) == IF p.local_name = <<>> THEN UnknownName ELSE p.local_name[1]

\* One of the three unwrap() calls at the head of the loop body panics.
UnwrapPanics(p) ==
    p.properties = "Err" \/ p.is_connected = "Err" \/ p.properties = "None"

\* !is_connected: the link-level connect is called at all.
\* Variant for sensitivity analysis of C6: connect() whatever is_connected says.
CallsConnectAlways(p) == TRUE
CallsConnect(p) == p.is_connected = "false"

\* !is_connected && peripheral.connect().await.is_err(): the peripheral is
\* passed over.
ConnectFails(p) == CallsConnect(p) /\ p.connect = "Err"

ConnectIdle ==
    /\ peripherals = <<>> /\ cn_pc = "idle" /\ cn_next = 0
    /\ cn_connection = <<>> /\ cn_examined = <<>> /\ cn_attempts = <<>>

\* RbManager::new() returns a manager only with a peripheral list that is
\* not empty; connect() has been called and stands before the first one.
ConnectInit ==
    /\ peripherals \in UNION {SeqsOfLen(PeripheralStates, n) : n \in 1..MaxPeripherals}
    /\ cn_pc = "iterating"
    /\ cn_next = 1
    /\ cn_connection = <<>>
    /\ cn_examined = <<>>
    /\ cn_attempts = [i \in 1..Len(peripherals) |-> 0]

\* One pass of the for loop's body, on peripherals[cn_next].
ConnectLoopBody ==
    /\ cn_pc = "iterating"
    /\ cn_next <= Len(peripherals)
    /\ LET p == peripherals[cn_next]
       IN  /\ cn_examined' = Append(cn_examined, cn_next)
           /\ IF UnwrapPanics(p)
              THEN /\ cn_pc' = "panicked"
                   /\ UNCHANGED <<cn_next, cn_connection, cn_attempts>>
              ELSE IF ~starts_with(LocalName(p), RACEBOX_LOCAL_NAME_PREFIX)
              THEN /\ cn_next' = cn_next + 1
                   /\ UNCHANGED <<cn_pc, cn_connection, cn_attempts>>
              ELSE /\ cn_attempts' =
                        IF CallsConnect(p)
                        THEN [cn_attempts EXCEPT ![cn_next] = @ + 1]
                        ELSE cn_attempts
                   /\ IF ConnectFails(p)
                      THEN /\ cn_next' = cn_next + 1
                           /\ UNCHANGED <<cn_pc, cn_connection>>
                      ELSE /\ cn_pc' = "returned_ok"
                           /\ cn_connection' =
                                [peripheral |-> cn_next,
                                 serial |-> strip_prefix(LocalName(p), RACEBOX_LOCAL_NAME_PREFIX)]
                           /\ UNCHANGED cn_next
    /\ UNCHANGED peripherals

\* The loop has run out of peripherals: Err("failed to find racebox mini").
ConnectNotFound ==
    /\ cn_pc = "iterating"
    /\ cn_next > Len(peripherals)
    /\ cn_pc' = "returned_err"
    /\ UNCHANGED <<peripherals, cn_next, cn_connection, cn_examined, cn_attempts>>

(***************************************************************************)
(* RbConnection::stream (connection.rs), the channel and the consumer loop *)
(* of main (bin/main.rs).  The n-th notification the radio layer delivers  *)
(* is the payload n.                                                       *)
(***************************************************************************)
TX_CHAR == "6E400003-B5A3-F393-E0A9-E50E24DCCA9E"
RX_CHAR == "6E400002-B5A3-F393-E0A9-E50E24DCCA9E"

\* mpsc::channel(32)
Capacity == 32

\* Characteristics the peripheral may expose: the TX characteristic with and
\* without NOTIFY, and another characteristic that has NOTIFY.
CharacteristicKinds ==
    { [uuid |-> TX_CHAR, properties |-> {"NOTIFY"}],
      [uuid |-> TX_CHAR, properties |-> {"READ"}],
      [uuid |-> RX_CHAR, properties |-> {"NOTIFY", "WRITE"}] }

\* characteristic.uuid == TX_CHAR && characteristic.properties.contains(NOTIFY)
IsNotifyCharacteristic(c) == c.uuid = TX_CHAR /\ "NOTIFY" \in c.properties

\* The task has ended and with it the Sender it owned.
SenderDropped == st_pc \in {"returned_ok", "returned_err", "panicked", "cancelled"}

\* main has panicked and with it the Receiver is gone.
ReceiverDropped == mn_pc = "panicked"

\* Sender::send on a channel with a free slot: the payload goes to the back.
\* Variant for sensitivity analysis of C3: the payload goes to the front.
ChannelPushFront(q, data) == <<data>> \o q
ChannelPush(q, data) == Append(q, data)

\* The channel has a free slot: send() completes.
\* Variant for sensitivity analysis of C4: a channel without a bound.
HasPermitAlways(q) == TRUE
HasPermit(q) == Len(q) < Capacity

StreamIdle ==
    /\ characteristics = <<>> /\ st_pc = "idle" /\ st_ci = 0 /\ st_data = 0
    /\ st_taken = <<>> /\ st_discovery = "none" /\ st_subscribed = 0
    /\ st_exit = "none" /\ queue = <<>> /\ mn_pc = "idle" /\ mn_none = FALSE
    /\ received = <<>>

\* main has made the channel and spawned the task that runs stream(tx);
\* it stands at the head of its consumer loop.
StreamInit ==
    /\ characteristics \in
          UNION {SeqsOfLen(CharacteristicKinds, n) : n \in 0..MaxCharacteristics}
    /\ st_pc = "discover"
    /\ st_ci = 0
    /\ st_data = 0
    /\ st_taken = <<>>
    /\ st_discovery = "none"
    /\ st_subscribed = 0
    /\ st_exit = "none"
    /\ queue = <<>>
    /\ mn_pc = "recv"
    /\ mn_none = FALSE
    /\ received = <<>>

\* self.peripheral.discover_services().await: panic! when it fails.
StreamDiscover ==
    /\ st_pc = "discover"
    /\ \E ok \in BOOLEAN :
          IF ok
          THEN st_pc' = "characteristics" /\ st_ci' = 1 /\ st_discovery' = "ok"
          ELSE st_pc' = "panicked" /\ st_ci' = st_ci /\ st_discovery' = "failed"
    /\ UNCHANGED <<characteristics, st_data, st_taken, st_subscribed, st_exit,
                   queue, mn_pc, mn_none, received>>

\* The for loop over the characteristics, from st_ci on: up to the next one
\* that passes the if, or to the end of the set and the final Ok(()).
StreamForLoop ==
    /\ st_pc = "characteristics"
    /\ LET matching == {i \in st_ci..Len(characteristics) :
                            IsNotifyCharacteristic(characteristics[i])}
       IN  IF matching = {}
           THEN st_pc' = "returned_ok" /\ st_ci' = Len(characteristics) + 1
           ELSE /\ st_pc' = "subscribe"
                /\ st_ci' = CHOOSE i \in matching : \A j \in matching : i <= j
    /\ UNCHANGED <<characteristics, st_data, st_taken, st_discovery, st_subscribed,
                   st_exit, queue, mn_pc, mn_none, received>>

\* self.peripheral.subscribe(&characteristic).await?
StreamSubscribe ==
    /\ st_pc = "subscribe"
    /\ \E ok \in BOOLEAN :
          IF ok
          THEN st_pc' = "notifications" /\ st_subscribed' = st_subscribed + 1
          ELSE st_pc' = "returned_err" /\ st_subscribed' = st_subscribed
    /\ UNCHANGED <<characteristics, st_ci, st_data, st_taken, st_discovery, st_exit,
                   queue, mn_pc, mn_none, received>>

\* self.peripheral.notifications().await?
StreamNotifications ==
    /\ st_pc = "notifications"
    /\ \E ok \in BOOLEAN :
          st_pc' = IF ok THEN "next" ELSE "returned_err"
    /\ UNCHANGED <<characteristics, st_ci, st_data, st_taken, st_discovery,
                   st_subscribed, st_exit, queue, mn_pc, mn_none, received>>

\* while let Some(data) = stream.next().await: the radio layer delivers the
\* next notification.
StreamNextSome ==
    /\ st_pc = "next"
    /\ Len(st_taken) < MaxNotifications
    /\ st_taken' = Append(st_taken, Len(st_taken) + 1)
    /\ st_data' = Len(st_taken) + 1
    /\ st_pc' = "send"
    /\ UNCHANGED <<characteristics, st_ci, st_discovery, st_subscribed, st_exit,
                   queue, mn_pc, mn_none, received>>

\* What a closed notification source makes of the task: the while loop
\* ends and the for loop goes on.
\* Variant for sensitivity analysis of C10: a closed source ends stream() in Err.
AfterSourceClosedErr == "returned_err"
AfterSourceClosed == "characteristics"

\* stream.next().await is None: the notification source has closed.
StreamNextNone ==
    /\ st_pc = "next"
    /\ st_exit' = "source_closed"
    /\ st_pc' = AfterSourceClosed
    /\ st_ci' = st_ci + 1
    /\ UNCHANGED <<characteristics, st_data, st_taken, st_discovery, st_subscribed,
                   queue, mn_pc, mn_none, received>>

\* channel.send(data).await?: an error when the Receiver is gone, else the
\* payload is enqueued once the channel has a free slot; until then the
\* task stays suspended in the send.
StreamSend ==
    /\ st_pc = "send"
    /\ IF ReceiverDropped
       THEN /\ st_pc' = "returned_err"
            /\ st_exit' = "sink_closed"
            /\ st_data' = 0
            /\ UNCHANGED queue
       ELSE /\ HasPermit(queue)
            /\ queue' = ChannelPush(queue, st_data)
            /\ st_pc' = "next"
            /\ st_data' = 0
            /\ UNCHANGED st_exit
    /\ UNCHANGED <<characteristics, st_ci, st_taken, st_discovery, st_subscribed,
                   mn_pc, mn_none, received>>

\* Receiver::recv: the oldest payload of the channel.
ChannelPop(q) == [data |-> Head(q), rest |-> Tail(q)]

\* rx.recv().await is Some(msg), and the body of the while loop: the
\* checksum, decode_rb_message(..) (an unwrap) and the prints, ended by
\* flush().expect(..).  When one of them panics main unwinds, the Receiver
\* is dropped and what the channel still held is dropped with it.
MainRecvSome ==
    /\ mn_pc = "recv"
    /\ queue # <<>>
    /\ received' = Append(received, ChannelPop(queue).data)
    /\ \E panics \in BOOLEAN :
          IF panics
          THEN mn_pc' = "panicked" /\ queue' = <<>>
          ELSE mn_pc' = mn_pc /\ queue' = ChannelPop(queue).rest
    /\ UNCHANGED <<characteristics, st_pc, st_ci, st_data, st_taken, st_discovery,
                   st_subscribed, st_exit, mn_none>>

\* rx.recv().await is None, the channel being empty and the Sender gone: the
\* while loop ends and the enclosing loop starts it again.
MainRecvNone ==
    /\ mn_pc = "recv"
    /\ queue = <<>>
    /\ SenderDropped
    /\ mn_none' = TRUE
    /\ UNCHANGED <<characteristics, st_pc, st_ci, st_data, st_taken, st_discovery,
                   st_subscribed, st_exit, queue, mn_pc, received>>

\* main has panicked: the runtime is shut down, and the task, if it has not
\* ended by itself, is dropped at the await it is suspended in.
RuntimeShutdown ==
    /\ mn_pc = "panicked"
    /\ ~SenderDropped
    /\ st_pc' = "cancelled"
    /\ st_data' = 0
    /\ UNCHANGED <<characteristics, st_ci, st_taken, st_discovery, st_subscribed,
                   st_exit, queue, mn_pc, mn_none, received>>

(***************************************************************************)
(* The body of main's consumer loop (bin/main.rs), on the bytes of the     *)
(* payloads: rb_checksum, the counter, decode_rb_message, the prints and   *)
(* the flush.                                                              *)
(***************************************************************************)
\* Most payloads the channel delivers to the loop in one run.
MaxPayloads == 3

\* Payloads the radio layer may deliver: the two frames of the tests, the
\* valid frame followed by one more byte, the valid frame with its last byte
\* missing, a 4-byte and an empty notification.
ConsumerPayloads ==
    { ReferenceFrame, BadChecksumFrame, ReferenceFrame \o <<0>>,
      SubSeq(ReferenceFrame, 1, 87), <<181, 98, 0, 0>>, <<>> }

\* if !rb_checksum(&msg.value) { checksum_failures += 1; }
\* Variant for sensitivity analysis of C15: a failed checksum is not counted.
CountsFailureNever(ck) == 0
CountsFailure(ck) == IF ck = "false" THEN 1 ELSE 0

\* One pass of the while loop's body over the payload msg; stdout is what
\* printing to and flushing the standard output answers.  The record tells
\* what rb_checksum returned, by how much the counter grew, what
\* decode_rb_message did, whether the prints were reached, and where the
\* pass left main.
ConsumerBody(msg, stdout) ==
    LET ck == rb_checksum(msg)
    IN  IF ck = "panic"
        THEN [payload |-> msg, checksum |-> "panic", counted |-> 0,
              decoded |-> "unreached", stdout |-> "unreached", ended |-> "panicked"]
        ELSE IF decode_rb_message(msg).outcome = "panic"
        THEN [payload |-> msg, checksum |-> ck, counted |-> CountsFailure(ck),
              decoded |-> "panic", stdout |-> "unreached", ended |-> "panicked"]
        ELSE [payload |-> msg, checksum |-> ck, counted |-> CountsFailure(ck),
              decoded |-> "message", stdout |-> stdout,
              ended |-> IF stdout = "Ok" THEN "recv" ELSE "panicked"]

ConsumerIdle ==
    /\ cs_channel = <<>> /\ cs_pc = "idle" /\ checksum_failures = 0
    /\ cs_processed = <<>> /\ cs_sender = "alive" /\ cs_none = FALSE

\* let mut checksum_failures = 0; main stands at rx.recv().  The channel
\* holds what stream() has sent; the task that ran stream() is still there,
\* with nothing to send for now, or it has ended and dropped the Sender.
ConsumerInit ==
    /\ cs_channel \in UNION {SeqsOfLen(ConsumerPayloads, n) : n \in 1..MaxPayloads}
    /\ cs_pc = "recv"
    /\ checksum_failures = 0
    /\ cs_processed = <<>>
    /\ cs_sender \in {"alive", "dropped"}
    /\ cs_none = FALSE

\* rx.recv().await is Some(msg): the body of the while loop runs on it.
ConsumerRecvSome ==
    /\ cs_pc = "recv"
    /\ cs_channel # <<>>
    /\ \E stdout \in {"Ok", "Err"} :
          LET pass == ConsumerBody(Head(cs_channel), stdout)
          IN  /\ checksum_failures' = checksum_failures + pass.counted
              /\ cs_processed' = Append(cs_processed, pass)
              /\ cs_pc' = pass.ended
    /\ cs_channel' = Tail(cs_channel)
    /\ UNCHANGED <<cs_sender, cs_none>>

\* rx.recv().await is None, the channel being empty and the Sender dropped:
\* the while loop ends and the enclosing loop starts it again.
ConsumerRecvNone ==
    /\ cs_pc = "recv"
    /\ cs_channel = <<>>
    /\ cs_sender = "dropped"
    /\ cs_none' = TRUE
    /\ UNCHANGED <<cs_channel, cs_pc, checksum_failures, cs_processed, cs_sender>>

(***************************************************************************)
(* RbManager::new (connection.rs).  A peripheral is a number; an adapter   *)
(* is the record of what its calls answer.                                 *)
(***************************************************************************)
\* Most adapters the manager lists.
MaxAdapters == 2
\* Most peripherals in range, and most an adapter sees.
MaxVisible == 2

\* What adapter.peripherals() may hold: peripherals in range, none twice.
VisibleLists ==
    { v \in UNION {SeqsOfLen(1..MaxVisible, n) : n \in 0..MaxVisible} :
        \A i \in 1..Len(v), j \in 1..Len(v) : v[i] = v[j] => i = j }

\* An adapter: what start_scan() and peripherals() answer, and the
\* peripherals it sees when peripherals() answers.
AdapterStates ==
    [start_scan : {"Ok", "Err"}, peripherals : {"Ok"}, visible : VisibleLists]
        \cup [start_scan : {"Ok", "Err"}, peripherals : {"Err"}, visible : {<<>>}]

ManagerIdle ==
    /\ mg_manager = "Ok" /\ mg_adapters = "Ok" /\ adapter_list = <<>>
    /\ mg_pc = "idle" /\ mg_next = 0 /\ mg_peripherals = <<>> /\ mg_error = ""

ManagerInit ==
    /\ mg_manager \in {"Ok", "Err"}
    /\ mg_adapters \in {"Ok", "Err"}
    /\ adapter_list \in UNION {SeqsOfLen(AdapterStates, n) : n \in 0..MaxAdapters}
    /\ mg_pc = "setup"
    /\ mg_next = 0
    /\ mg_peripherals = <<>>
    /\ mg_error = ""

\* Manager::new().await.unwrap(), manager.adapters().await.unwrap(), the
\* test for an empty adapter list, and peripherals = Vec::new().
ManagerSetup ==
    /\ mg_pc = "setup"
    /\ IF mg_manager = "Err" \/ mg_adapters = "Err"
       THEN mg_pc' = "panicked" /\ UNCHANGED <<mg_next, mg_error>>
       ELSE IF adapter_list = <<>>
       THEN /\ mg_pc' = "returned_err"
            /\ mg_error' = "No adapters found"
            /\ UNCHANGED mg_next
       ELSE mg_pc' = "scanning" /\ mg_next' = 1 /\ UNCHANGED mg_error
    /\ UNCHANGED <<mg_manager, mg_adapters, adapter_list, mg_peripherals>>

\* peripherals = adapter.peripherals().await.unwrap(): what the adapter sees
\* is assigned to the local, whatever the local held.
Collect(held, visible) == visible

\* One pass of the for loop over the adapters: start_scan, the sleep,
\* peripherals() and the test for an empty vector.
ManagerScanAdapter ==
    /\ mg_pc = "scanning"
    /\ mg_next <= Len(adapter_list)
    /\ LET adapter == adapter_list[mg_next]
       IN  IF adapter.start_scan = "Err"
           THEN /\ mg_pc' = "returned_err"
                /\ mg_error' = "Failed to scan for adapters"
                /\ UNCHANGED <<mg_next, mg_peripherals>>
           ELSE IF adapter.peripherals = "Err"
           THEN mg_pc' = "panicked" /\ UNCHANGED <<mg_next, mg_peripherals, mg_error>>
           ELSE /\ mg_peripherals' = Collect(mg_peripherals, adapter.visible)
                /\ IF mg_peripherals' = <<>>
                   THEN /\ mg_pc' = "returned_err"
                        /\ mg_error' = "No devices found"
                        /\ UNCHANGED mg_next
                   ELSE mg_next' = mg_next + 1 /\ UNCHANGED <<mg_pc, mg_error>>
    /\ UNCHANGED <<mg_manager, mg_adapters, adapter_list>>

\* The for loop is through: Ok(RbManager { adapter_list, manager, peripherals }).
ManagerReturn ==
    /\ mg_pc = "scanning"
    /\ mg_next > Len(adapter_list)
    /\ mg_pc' = "returned_ok"
    /\ UNCHANGED <<mg_manager, mg_adapters, adapter_list, mg_next, mg_peripherals,
                   mg_error>>

(***************************************************************************)
(* The flag accessors of RbMessage (message.rs).  They read the bitmask    *)
(* bytes of the record only, which is all of the record that is kept here. *)
(***************************************************************************)
\* u8 >> n
Shr(v, n) == v \div (2 ^ n)

\* u8 & 1
And1(v) == v % 2

is_valid_date(m) == And1(m.validity) = 1

is_valid_time(m) == And1(Shr(m.validity, 1)) = 1

is_fully_resolved(m) == And1(Shr(m.validity, 2)) = 1

is_valid_magnetic_declination(m) == And1(Shr(m.validity, 3)) = 1

is_valid_fix(m) == And1(m.fix_status_flags) = 1

is_differential_corrections_applied(m) == And1(Shr(m.fix_status_flags, 1)) = 1

\* Variant for sensitivity analysis of C16: the bit below is tested.
is_valid_heading_shift4(m) == And1(Shr(m.fix_status_flags, 4)) = 1
is_valid_heading(m) == And1(Shr(m.fix_status_flags, 5)) = 1

\* Variant for sensitivity analysis of C17: the bit above is tested.
is_confirmation_datetime_validity_shift5(m) == And1(Shr(m.date_time_flags, 5)) = 1
is_confirmation_datetime_validity(m) == And1(Shr(m.date_time_flags, 4)) = 1

is_confirmed_utc_date_validty(m) == And1(Shr(m.date_time_flags, 5)) = 1

is_confirmed_utc_time_validty(m) == And1(Shr(m.date_time_flags, 6)) = 1

\* if self.date_time_flags & 1 == 1 { return false; } true
is_valid_position(m) == ~(And1(m.date_time_flags) = 1)

\* The bitmask bytes of a decoded record.
FlagBytes(msg) ==
    [validity |-> msg.validity, fix_status_flags |-> msg.fix_status_flags,
     date_time_flags |-> msg.date_time_flags, lat_lon_flags |-> msg.lat_lon_flags]

\* The bitmask bytes of the decoded reference frame.
ReferenceFlags == FlagBytes(decode_rb_message(ReferenceFrame).msg)

\* Records to call the accessors on: one bitmask byte takes every value
\* while the others are those of the reference frame, all zeros or all ones.
FlagMessages ==
    LET base == [validity : {0, 255}, fix_status_flags : {0, 255},
                 date_time_flags : {0, 255}, lat_lon_flags : {0, 255}]
                    \cup {ReferenceFlags}
    IN  UNION { { [m EXCEPT ![f] = v] : v \in U8 } :
                  m \in base, f \in DOMAIN ReferenceFlags }

\* What every accessor returns on m.
Accessors(m) ==
    [is_valid_date |-> is_valid_date(m),
     is_valid_time |-> is_valid_time(m),
     is_fully_resolved |-> is_fully_resolved(m),
     is_valid_magnetic_declination |-> is_valid_magnetic_declination(m),
     is_valid_fix |-> is_valid_fix(m),
     is_differential_corrections_applied |-> is_differential_corrections_applied(m),
     is_valid_heading |-> is_valid_heading(m),
     is_confirmation_datetime_validity |-> is_confirmation_datetime_validity(m),
     is_confirmed_utc_date_validty |-> is_confirmed_utc_date_validty(m),
     is_confirmed_utc_time_validty |-> is_confirmed_utc_time_validty(m),
     is_valid_position |-> is_valid_position(m)]

FlagsIdle ==
    /\ fl_msg = [validity |-> 0, fix_status_flags |-> 0, date_time_flags |-> 0,
                 lat_lon_flags |-> 0]
    /\ fl_pc = "idle"
    /\ fl_out = Accessors(fl_msg)

\* A record has been decoded; no accessor has been called on it and fl_out
\* holds nothing of it yet.
FlagsInit ==
    /\ fl_msg \in FlagMessages
    /\ fl_pc = "ready"
    /\ fl_out = [name \in DOMAIN Accessors(fl_msg) |-> FALSE]

\* Every accessor is called on the record.
CallAccessors ==
    /\ fl_pc = "ready"
    /\ fl_out' = Accessors(fl_msg)
    /\ fl_pc' = "done"
    /\ UNCHANGED fl_msg

(***************************************************************************)
(* Properties of rb_checksum.                                              *)
(***************************************************************************)
\* The accumulators after the bytes at the 0-based indices lo .. hi of raw
\* were added in order, starting from ck: ck_a := (ck_a + byte) mod 256,
\* then ck_b := (ck_b + ck_a) mod 256.
RECURSIVE C1_Accumulate(_, _, _, _)
C1_Accumulate(raw, lo, hi, ck) ==
    IF lo > hi THEN ck
    ELSE IF lo = hi
    THEN LET a == (ck[1] + raw[lo + 1]) % 256 IN <<a, (ck[2] + a) % 256>>
    ELSE LET mid == (lo + hi) \div 2
             left == C1_Accumulate(raw, lo, mid, ck)
         IN  IF left[1] >= 0 THEN C1_Accumulate(raw, mid + 1, hi, left) ELSE left

C1_Valid(raw) ==
    LET n == Len(raw)
        ck == C1_Accumulate(raw, 2, n - 3, <<0, 0>>)
    IN  ck[1] = raw[n - 1] /\ ck[2] = raw[n]

\* C1: for every buffer of at least 4 bytes rb_checksum answers true exactly
\* when the accumulators run over the bytes at index 2 .. len-3 equal the
\* bytes at len-2 and len-1; the bytes at index 0 and 1 do not influence the
\* answer; the reference frame validates and its FF FF variant does not.
C1_ChecksumContract ==
    (ck_out \in {"true", "false", "panic"} /\ Len(ck_raw) >= 4) =>
        /\ ck_out \in {"true", "false"}
        /\ (ck_out = "true") <=> C1_Valid(ck_raw)
        /\ \A b0 \in ByteVals, b1 \in ByteVals :
              rb_checksum([ck_raw EXCEPT ![1] = b0, ![2] = b1]) = ck_out
        /\ (ck_raw = ReferenceFrame => ck_out = "true")
        /\ (ck_raw = BadChecksumFrame => ck_out = "false")

\* The reference frame was checked and validated.
C1_Witness == ck_out = "true" /\ ck_raw = ReferenceFrame

\* C23: when rb_checksum returns true on a buffer of at least 5 bytes, it
\* returns false on every buffer that differs from it in exactly one byte at
\* an index of 2 or more, be it a covered byte or a trailer byte.
C23_SingleByteChangeDetected ==
    (ck_out = "true" /\ Len(ck_raw) >= 5) =>
        \A i \in 3..Len(ck_raw) : \A v \in U8 \ {ck_raw[i]} :
            rb_checksum([ck_raw EXCEPT ![i] = v]) = "false"

\* A 5-byte buffer validated whose one covered byte is 255.
C23_Witness ==
    /\ ck_out = "true"
    /\ Len(ck_raw) = 5
    /\ ck_raw[3] = 255

\* C11: for every buffer of fewer than 4 bytes rb_checksum returns false; it
\* does not fault.
C11_ShortBufferIsFalse ==
    (ck_out \in {"true", "false", "panic"} /\ Len(ck_raw) < 4) => ck_out = "false"

(***************************************************************************)
(* Properties of decode_rb_message.                                        *)
(***************************************************************************)
\* The layout of the record: <<field, offset of its first byte, width, kind>>.
C2_Layout ==
    << <<"start", 0, 2, "u">>, <<"class", 2, 2, "u">>, <<"length", 4, 2, "u">>,
       <<"itow", 6, 4, "u">>, <<"year", 10, 2, "u">>, <<"month", 12, 1, "u">>,
       <<"day", 13, 1, "u">>, <<"hour", 14, 1, "u">>, <<"minute", 15, 1, "u">>,
       <<"second", 16, 1, "u">>, <<"validity", 17, 1, "u">>,
       <<"time_accuracy", 18, 4, "u">>, <<"nanoseconds", 22, 4, "i">>,
       <<"fix_status", 26, 1, "u">>, <<"fix_status_flags", 27, 1, "u">>,
       <<"date_time_flags", 28, 1, "u">>, <<"number_of_svs", 29, 1, "u">>,
       <<"longitude", 30, 4, "i">>, <<"latitude", 34, 4, "i">>,
       <<"wgs_altitude", 38, 4, "i">>, <<"msl_altitude", 42, 4, "i">>,
       <<"horizontal_accuracy", 46, 4, "u">>, <<"vertical_accuracy", 50, 4, "u">>,
       <<"speed", 54, 4, "i">>, <<"heading", 58, 4, "i">>,
       <<"speed_accuracy", 62, 4, "u">>, <<"heading_accuracy", 66, 4, "u">>,
       <<"pdop", 70, 2, "u">>, <<"lat_lon_flags", 72, 1, "u">>,
       <<"battery_status", 73, 1, "u">>,
       <<"g_force_x", 74, 2, "i">>, <<"g_force_y", 76, 2, "i">>, <<"g_force_z", 78, 2, "i">>,
       <<"rot_rate_x", 80, 2, "i">>, <<"rot_rate_y", 82, 2, "i">>, <<"rot_rate_z", 84, 2, "i">>,
       <<"checksum", 86, 2, "u">> >>

\* The value of the `width` bytes of raw from 0-based offset `off`, least
\* significant byte first, in two's complement for kind "i".  An unsigned
\* 32-bit value is given as its two 16-bit halves, high half first.
C2_Value(raw, off, width, kind) ==
    LET b0 == raw[off + 1]
        b1 == raw[off + 2]
        b2 == raw[off + 3]
        b3 == raw[off + 4]
    IN  CASE width = 1 -> b0
          [] width = 2 /\ kind = "u" -> b0 + 256 * b1
          [] width = 2 /\ kind = "i" ->
                b0 + 256 * b1 - (IF b1 >= 128 THEN 65536 ELSE 0)
          [] width = 4 /\ kind = "u" -> <<256 * b3 + b2, 256 * b1 + b0>>
          [] width = 4 /\ kind = "i" ->
                b0 + 256 * b1 + 65536 * b2
                   + 16777216 * (IF b3 >= 128 THEN b3 - 256 ELSE b3)

\* An unsigned 32-bit number as its two 16-bit halves.
C2_U32(n) == <<n \div 65536, n % 65536>>

\* C2: an 88-byte buffer decodes to a record whose fields are the
\* little-endian (two's complement where signed) values of the bytes at the
\* fixed offsets of the layout; the reference frame gives the values of
\* test_decode_rb_message.
C2_DecodeLayout ==
    (dec_out.outcome \in {"message", "panic"} /\ Len(dec_raw) = 88) =>
        /\ dec_out.outcome = "message"
        /\ DOMAIN dec_out.msg = {C2_Layout[k][1] : k \in 1..Len(C2_Layout)}
        /\ \A k \in 1..Len(C2_Layout) :
              dec_out.msg[C2_Layout[k][1]]
                 = C2_Value(dec_raw, C2_Layout[k][2], C2_Layout[k][3], C2_Layout[k][4])
        /\ dec_raw = ReferenceFrame =>
              /\ dec_out.msg.itow = C2_U32(118286240)
              /\ dec_out.msg.year = 2022 /\ dec_out.msg.month = 1 /\ dec_out.msg.day = 10
              /\ dec_out.msg.hour = 8 /\ dec_out.msg.minute = 51 /\ dec_out.msg.second = 8
              /\ dec_out.msg.fix_status = 3
              /\ dec_out.msg.number_of_svs = 11
              /\ dec_out.msg.longitude = 232887238
              /\ dec_out.msg.latitude = 426719035
              /\ dec_out.msg.msl_altitude = 590095
              /\ dec_out.msg.speed = 35
              /\ dec_out.msg.pdop = 300
              /\ dec_out.msg.g_force_x = -3
              /\ dec_out.msg.checksum = 6 + 256 * 219

\* A frame other than the reference frame was decoded, one whose longitude
\* has its sign bit set.
C2_Witness ==
    /\ dec_out.outcome = "message"
    /\ Len(dec_raw) = 88
    /\ dec_raw # ReferenceFrame
    /\ dec_out.msg.longitude < 0


\* The payload length the header of the buffer announces.
C12_LengthField(raw) == raw[5] + 256 * raw[6]

\* The buffer is shorter than the record, or its length field plus the 8
\* bytes of header and checksum is not the size of the buffer.
C12_Malformed(raw) ==
    \/ Len(raw) < 88
    \/ C12_LengthField(raw) + 8 # Len(raw)

\* C12: for every buffer shorter than the 88-byte record, and for every
\* buffer whose length field disagrees with its size, decode_rb_message
\* reports a malformed frame: it neither panics nor produces a record.
C12_MalformedFrameIsReported ==
    (dec_out.outcome \in {"message", "panic"} /\ C12_Malformed(dec_raw))
        => dec_out.outcome = "malformed"

(***************************************************************************)
(* Properties of RbManager::connect.                                       *)
(***************************************************************************)
\* The advertised name of peripheral i begins with "RaceBox Mini ".
C5_NameMatches(i) ==
    LET p == peripherals[i]
    IN  /\ p.properties = "Some"
        /\ p.local_name # <<>>
        /\ Len(p.local_name[1]) >= Len(RACEBOX_LOCAL_NAME_PREFIX)
        /\ \A k \in 1..Len(RACEBOX_LOCAL_NAME_PREFIX) :
              p.local_name[1][k] = RACEBOX_LOCAL_NAME_PREFIX[k]

\* Peripheral i matches and is connected already, or answers a connect
\* attempt with success.
C5_Qualifies(i) ==
    /\ C5_NameMatches(i)
    /\ \/ peripherals[i].is_connected = "true"
       \/ peripherals[i].is_connected = "false" /\ peripherals[i].connect = "Ok"

\* C5: connect() returns a Connection for the first peripheral, in
\* discovery order, that matches the prefix and is connected or connects; no
\* peripheral gets a second connect attempt, and the peripherals looked at
\* are those up to the one returned, each once.
C5_FirstMatchWins ==
    /\ \A i \in 1..Len(peripherals) : cn_attempts[i] <= 1
    /\ cn_examined = [k \in 1..Len(cn_examined) |-> k]
    /\ (cn_pc \in {"returned_ok", "returned_err", "panicked"}
          /\ \E i \in 1..Len(peripherals) : C5_Qualifies(i))
       => /\ cn_pc = "returned_ok"
          /\ C5_Qualifies(cn_connection.peripheral)
          /\ \A j \in 1..(cn_connection.peripheral - 1) : ~C5_Qualifies(j)
          /\ Len(cn_examined) = cn_connection.peripheral

\* C6: a link-level connect is attempted only on a peripheral whose name has
\* the prefix and which is not connected; a peripheral without the prefix is
\* passed over, and a matching connected one returned, without an attempt.
C6_ConnectOnlyWhenNeeded ==
    /\ \A i \in 1..Len(peripherals) :
          cn_attempts[i] > 0 =>
              C5_NameMatches(i) /\ peripherals[i].is_connected = "false"
    /\ \A k \in 1..Len(cn_examined) :
          (peripherals[cn_examined[k]].properties = "Some"
             /\ peripherals[cn_examined[k]].is_connected = "true"
             /\ C5_NameMatches(cn_examined[k]))
          => /\ cn_pc = "returned_ok"
             /\ cn_connection.peripheral = cn_examined[k]
             /\ cn_attempts[cn_examined[k]] = 0

\* A connected RaceBox Mini was returned after a peripheral of another name,
\* itself not connected, had been passed over.
C6_Witness ==
    /\ cn_pc = "returned_ok"
    /\ cn_connection.peripheral = 2
    /\ peripherals[2].is_connected = "true"
    /\ peripherals[1].is_connected = "false"
    /\ ~C5_NameMatches(1)
    /\ cn_attempts = <<0, 0>>

\* C7: when no peripheral matches the prefix and is connected or connects,
\* connect() returns its error value: it neither panics nor returns a
\* Connection.
C7_NotFoundIsAnError ==
    (cn_pc \in {"returned_ok", "returned_err", "panicked"}
        /\ \A i \in 1..Len(peripherals) : ~C5_Qualifies(i))
    => cn_pc = "returned_err"

(***************************************************************************)
(* Properties of RbConnection::stream and the channel.                     *)
(***************************************************************************)
\* C3: what the consumer has received is at every moment a prefix of what
\* stream() has taken from the radio layer: same order, nothing twice,
\* nothing left out.
C3_FifoDelivery ==
    /\ Len(received) <= Len(st_taken)
    /\ \A k \in 1..Len(received) : received[k] = st_taken[k]

\* The consumer has received three payloads while more are on their way.
C3_Witness ==
    /\ Len(received) >= 3
    /\ Len(queue) >= 2
    /\ Len(st_taken) > Len(received) + Len(queue)

\* C4: the channel never holds more than 32 payloads.  While it is full the
\* pending send does not complete and the queue only changes by the consumer
\* taking its head; a send that completes puts the pending payload,
\* unchanged, behind what was queued.
C4_Backpressure ==
    /\ [](Len(queue) <= 32)
    /\ [][(st_pc = "send" /\ Len(queue) = 32)
            => /\ st_pc' \in {"send", "cancelled", "returned_err"}
               /\ st_pc' = "send" => st_data' = st_data
               /\ \/ queue' = queue
                  \/ /\ received' = Append(received, queue[1])
                     /\ queue' = Tail(queue) \/ mn_pc' = "panicked"]_vars
    /\ [][(st_pc = "send" /\ st_pc' = "next")
            => /\ Len(queue) < 32
               /\ st_data \in 1..MaxNotifications
               /\ queue' = queue \o <<st_data>>]_vars

\* The channel was full with payloads 1 .. 32 and payload 33 pending; the
\* consumer took payload 1 and payload 33 went in behind payload 32.
C4_Witness ==
    /\ received = <<1>>
    /\ Len(queue) = 32
    /\ queue[1] = 2
    /\ queue[32] = 33
    /\ st_pc = "next"

\* C8: when service discovery fails stream() returns an error (it does not
\* panic), nothing is subscribed and nothing is forwarded.
C8_DiscoveryFailureIsAnError ==
    st_discovery = "failed" =>
        /\ st_pc = "returned_err"
        /\ st_subscribed = 0
        /\ st_taken = <<>> /\ queue = <<>>

\* Some discovered characteristic has the TX identifier and NOTIFY.
C9_HasNotifyCharacteristic ==
    \E i \in 1..Len(characteristics) :
        /\ characteristics[i].uuid = "6E400003-B5A3-F393-E0A9-E50E24DCCA9E"
        /\ "NOTIFY" \in characteristics[i].properties

\* C9: when no discovered characteristic has the TX identifier and NOTIFY,
\* stream() returns an error, not success.
C9_NoNotifyCharacteristicIsAnError ==
    (st_discovery = "ok" /\ ~C9_HasNotifyCharacteristic
        /\ st_pc \in {"returned_ok", "returned_err", "panicked"})
    => st_pc = "returned_err"

\* C10 as claimed: once the receive loop has ended, by the source closing or
\* by the sink being gone, stream() ends by returning an error.
C10_LoopEndReturnsError ==
    (st_exit \in {"source_closed", "sink_closed"}
        /\ st_pc \in {"returned_ok", "returned_err", "panicked"})
    => st_pc = "returned_err"

\* C10 as amended: once subscribed stream() never panics.  When the sink is
\* gone it returns an error.  When the notification source closes it returns
\* no error: the for loop goes on with the characteristics that remain, to
\* another subscription or to the final Ok(()), and an Ok(()) after a
\* subscription is always the outcome of a closed source.
C10_LoopEndOutcome ==
    /\ [](st_subscribed > 0 => st_pc # "panicked")
    /\ [](st_exit = "sink_closed" => st_pc = "returned_err")
    /\ []((st_pc = "returned_ok" /\ st_subscribed > 0) => st_exit = "source_closed")
    /\ [][(st_pc = "next" /\ st_pc' \notin {"next", "send", "cancelled"})
            => (st_pc' = "characteristics" /\ st_exit' = "source_closed")]_vars
    /\ [][st_pc = "characteristics"
            => st_pc' \in {"characteristics", "subscribe", "returned_ok", "cancelled"}]_vars

\* The notification source closed after payloads had been forwarded, and
\* stream() returned Ok(()).
C10_Witness ==
    /\ st_pc = "returned_ok"
    /\ st_exit = "source_closed"
    /\ Len(st_taken) >= 2
    /\ Len(received) >= 1

\* The consumer has drained nothing yet and stream() stands at a send.
C18_SendWithoutDrain == st_pc = "send" /\ mn_pc = "recv" /\ received = <<>>

\* C18 as claimed: with a consumer that does not drain, the 32nd send is
\* one that suspends.
C18_SuspendsOnSend32 ==
    (C18_SendWithoutDrain /\ Len(st_taken) = 32) => ~ENABLED StreamSend

\* C18 as amended: with a consumer that does not drain, the sends 1 .. 32
\* complete and the 33rd is the first that suspends; and as long as the
\* consumer runs, what it has received, what the channel holds and the
\* payload of the pending send are, in this order, exactly what stream()
\* has taken from the radio layer.
C18_SuspendsOnSend33 ==
    /\ C18_SendWithoutDrain => (ENABLED StreamSend <=> Len(st_taken) <= 32)
    /\ mn_pc = "recv" =>
          received \o queue \o (IF st_pc = "send" THEN <<st_data>> ELSE <<>>) = st_taken

\* The 33rd send is pending on a channel that holds the payloads 1 .. 32,
\* none of which the consumer has taken.
C18_Witness ==
    /\ C18_SendWithoutDrain
    /\ st_data = 33
    /\ Len(queue) = 32
    /\ queue[1] = 1

(***************************************************************************)
(* Properties of main's consumer loop.                                     *)
(***************************************************************************)
\* C13: whatever payload the loop receives, also one that is shorter than a
\* frame or cannot be decoded, the loop does not abort on it: it stands at
\* recv again, ready for the payloads that follow.
C13_ConsumerSkipsUndecodable ==
    \A k \in 1..Len(cs_processed) :
        cs_processed[k].stdout # "Err" => cs_processed[k].ended = "recv"

\* The number of passes among the first n whose payload failed the checksum.
RECURSIVE C15_Failed(_)
C15_Failed(n) ==
    IF n = 0 THEN 0
    ELSE C15_Failed(n - 1) + (IF cs_processed[n].checksum = "false" THEN 1 ELSE 0)

\* Every payload processed so far is a full frame.
C15_FullLength == \A k \in 1..Len(cs_processed) : Len(cs_processed[k].payload) >= 88

\* C15: after any sequence of full-length payloads the counter is the number
\* of them for which rb_checksum returned false; the counter never
\* decreases; a payload that fails the checksum is decoded all the same, and
\* the loop is left at recv whenever the standard output took the prints.
C15_ChecksumFailuresCounted ==
    /\ [](C15_FullLength =>
            /\ checksum_failures = C15_Failed(Len(cs_processed))
            /\ \A k \in 1..Len(cs_processed) :
                  cs_processed[k].checksum = "false" =>
                      /\ cs_processed[k].decoded = "message"
                      /\ cs_processed[k].ended = "recv" <=> cs_processed[k].stdout = "Ok")
    /\ [][checksum_failures' >= checksum_failures]_vars

\* Three full frames were processed, the first and the last of which failed
\* the checksum.
C15_Witness ==
    /\ Len(cs_processed) = 3
    /\ C15_FullLength
    /\ cs_processed[1].checksum = "false"
    /\ cs_processed[2].checksum = "true"
    /\ cs_processed[3].checksum = "false"
    /\ checksum_failures = 2

\* C22: when the task that ran stream() has ended and dropped its Sender,
\* main stays in its loop for good, and recv() answers None only when every
\* payload that was queued has been received.
C22_ConsumerOutlivesSender ==
    cs_sender = "dropped" =>
        /\ (\A k \in 1..Len(cs_processed) : cs_processed[k].stdout # "Err")
              => cs_pc = "recv"
        /\ cs_none => (cs_channel = <<>> /\ cs_pc = "recv")

(***************************************************************************)
(* Properties of RbManager::new.                                           *)
(***************************************************************************)
\* new() scanned every adapter without a failed call, and none saw anything.
C14_NothingCollected ==
    /\ mg_next = Len(adapter_list)
    /\ \A i \in 1..Len(adapter_list) :
          /\ adapter_list[i].start_scan = "Ok"
          /\ adapter_list[i].peripherals = "Ok"
          /\ adapter_list[i].visible = <<>>

\* C14: new() fails with "No devices found" exactly when every adapter has
\* been scanned and the peripherals collected over all of them are none; it
\* does not fail because one adapter saw nothing while another saw some.
C14_NoDevicesFoundIffEmpty ==
    mg_pc \in {"returned_ok", "returned_err"} =>
        (mg_error = "No devices found" <=> C14_NothingCollected)

\* C19: when new() succeeds, the peripherals it holds contain every
\* peripheral that was visible on any of the adapters.
C19_HoldsUnionOfAdapters ==
    mg_pc = "returned_ok" =>
        \A i \in 1..Len(adapter_list) : \A k \in 1..Len(adapter_list[i].visible) :
            \E j \in 1..Len(mg_peripherals) :
                mg_peripherals[j] = adapter_list[i].visible[k]

(***************************************************************************)
(* Properties of the flag accessors.                                       *)
(***************************************************************************)
\* Bit k of the byte v is set: v is a multiple of 2^(k+1), plus 2^k, plus
\* less than 2^k.
C16_Bit(v, k) ==
    \E hi \in 0..(255 \div (2 ^ (k + 1))), lo \in 0..((2 ^ k) - 1) :
        v = hi * (2 ^ (k + 1)) + (2 ^ k) + lo

\* C16: each accessor of the validity byte and of the fix_status_flags byte
\* returns one bit of its byte, whatever the other bytes are: is_valid_date
\* bit 0, is_valid_time bit 1, is_fully_resolved bit 2,
\* is_valid_magnetic_declination bit 3 of validity; is_valid_fix bit 0,
\* is_differential_corrections_applied bit 1, is_valid_heading bit 5 of
\* fix_status_flags.  The reference frame (0x37, 0x01) gives true, true,
\* true, false and true, false, false.
C16_ValidityAndFixBits ==
    fl_pc = "done" =>
        /\ fl_out.is_valid_date = C16_Bit(fl_msg.validity, 0)
        /\ fl_out.is_valid_time = C16_Bit(fl_msg.validity, 1)
        /\ fl_out.is_fully_resolved = C16_Bit(fl_msg.validity, 2)
        /\ fl_out.is_valid_magnetic_declination = C16_Bit(fl_msg.validity, 3)
        /\ fl_out.is_valid_fix = C16_Bit(fl_msg.fix_status_flags, 0)
        /\ fl_out.is_differential_corrections_applied = C16_Bit(fl_msg.fix_status_flags, 1)
        /\ fl_out.is_valid_heading = C16_Bit(fl_msg.fix_status_flags, 5)
        /\ (fl_msg.validity = 55 /\ fl_msg.fix_status_flags = 1) =>
              /\ fl_out.is_valid_date /\ fl_out.is_valid_time /\ fl_out.is_fully_resolved
              /\ ~fl_out.is_valid_magnetic_declination
              /\ fl_out.is_valid_fix
              /\ ~fl_out.is_differential_corrections_applied
              /\ ~fl_out.is_valid_heading

\* The accessors were called on a record whose fix_status_flags has bit 5
\* set and bit 4 clear, and whose other bitmask bytes are all ones.
C16_Witness ==
    /\ fl_pc = "done"
    /\ fl_msg.fix_status_flags = 32
    /\ fl_msg.validity = 255
    /\ fl_msg.date_time_flags = 255
    /\ fl_out.is_valid_heading

C20_DateTimeBitsAsDocumented ==
    fl_pc = "done" =>
        /\ fl_out.is_confirmation_datetime_validity = C16_Bit(fl_msg.date_time_flags, 5)
        /\ fl_out.is_confirmed_utc_date_validty = C16_Bit(fl_msg.date_time_flags, 6)
        /\ fl_out.is_confirmed_utc_time_validty = C16_Bit(fl_msg.date_time_flags, 7)

\* C21: is_valid_position returns false exactly when bit 0 of lat_lon_flags
\* is set, whatever the other bytes of the record are.
C21_PositionFollowsLatLonFlags ==
    fl_pc = "done" =>
        (~fl_out.is_valid_position <=> C16_Bit(fl_msg.lat_lon_flags, 0))

(***************************************************************************)
(* Specifications.                                                         *)
(***************************************************************************)
ChecksumNext == CallRbChecksum /\ UNCHANGED <<dec_vars, cn_vars, st_vars, cs_vars, mg_vars, fl_vars>>

InitChecksum == ChecksumInit /\ DecodeIdle /\ ConnectIdle /\ StreamIdle
        /\ ConsumerIdle /\ ManagerIdle /\ FlagsIdle

SpecChecksum == InitChecksum /\ [][ChecksumNext]_vars

DecodeNext ==
    \/ EditByte /\ UNCHANGED <<ck_vars, cn_vars, st_vars, cs_vars, mg_vars, fl_vars>>
    \/ ResizeFrame /\ UNCHANGED <<ck_vars, cn_vars, st_vars, cs_vars, mg_vars, fl_vars>>
    \/ CallDecodeRbMessage /\ UNCHANGED <<ck_vars, cn_vars, st_vars, cs_vars, mg_vars, fl_vars>>

InitDecode == DecodeInit /\ ChecksumIdle /\ ConnectIdle /\ StreamIdle
        /\ ConsumerIdle /\ ManagerIdle /\ FlagsIdle

SpecDecode == InitDecode /\ [][DecodeNext]_vars

ConnectNext ==
    \/ ConnectLoopBody /\ UNCHANGED <<ck_vars, dec_vars, st_vars, cs_vars, mg_vars, fl_vars>>
    \/ ConnectNotFound /\ UNCHANGED <<ck_vars, dec_vars, st_vars, cs_vars, mg_vars, fl_vars>>

InitConnect == ConnectInit /\ ChecksumIdle /\ DecodeIdle /\ StreamIdle
        /\ ConsumerIdle /\ ManagerIdle /\ FlagsIdle

SpecConnect == InitConnect /\ [][ConnectNext]_vars

StreamNext ==
    \/ StreamDiscover /\ UNCHANGED <<ck_vars, dec_vars, cn_vars, cs_vars, mg_vars, fl_vars>>
    \/ StreamForLoop /\ UNCHANGED <<ck_vars, dec_vars, cn_vars, cs_vars, mg_vars, fl_vars>>
    \/ StreamSubscribe /\ UNCHANGED <<ck_vars, dec_vars, cn_vars, cs_vars, mg_vars, fl_vars>>
    \/ StreamNotifications /\ UNCHANGED <<ck_vars, dec_vars, cn_vars, cs_vars, mg_vars, fl_vars>>
    \/ StreamNextSome /\ UNCHANGED <<ck_vars, dec_vars, cn_vars, cs_vars, mg_vars, fl_vars>>
    \/ StreamNextNone /\ UNCHANGED <<ck_vars, dec_vars, cn_vars, cs_vars, mg_vars, fl_vars>>
    \/ StreamSend /\ UNCHANGED <<ck_vars, dec_vars, cn_vars, cs_vars, mg_vars, fl_vars>>
    \/ MainRecvSome /\ UNCHANGED <<ck_vars, dec_vars, cn_vars, cs_vars, mg_vars, fl_vars>>
    \/ MainRecvNone /\ UNCHANGED <<ck_vars, dec_vars, cn_vars, cs_vars, mg_vars, fl_vars>>
    \/ RuntimeShutdown /\ UNCHANGED <<ck_vars, dec_vars, cn_vars, cs_vars, mg_vars, fl_vars>>

InitStream == StreamInit /\ ChecksumIdle /\ DecodeIdle /\ ConnectIdle
        /\ ConsumerIdle /\ ManagerIdle /\ FlagsIdle

SpecStream == InitStream /\ [][StreamNext]_vars

ConsumerNext ==
    \/ ConsumerRecvSome /\ UNCHANGED <<ck_vars, dec_vars, cn_vars, st_vars, mg_vars, fl_vars>>
    \/ ConsumerRecvNone /\ UNCHANGED <<ck_vars, dec_vars, cn_vars, st_vars, mg_vars, fl_vars>>

InitConsumer == ConsumerInit /\ ChecksumIdle /\ DecodeIdle /\ ConnectIdle /\ StreamIdle
        /\ ManagerIdle /\ FlagsIdle

SpecConsumer == InitConsumer /\ [][ConsumerNext]_vars

ManagerNext ==
    \/ ManagerSetup /\ UNCHANGED <<ck_vars, dec_vars, cn_vars, st_vars, cs_vars, fl_vars>>
    \/ ManagerScanAdapter /\ UNCHANGED <<ck_vars, dec_vars, cn_vars, st_vars, cs_vars, fl_vars>>
    \/ ManagerReturn /\ UNCHANGED <<ck_vars, dec_vars, cn_vars, st_vars, cs_vars, fl_vars>>

InitManager == ManagerInit /\ ChecksumIdle /\ DecodeIdle /\ ConnectIdle /\ StreamIdle
        /\ ConsumerIdle /\ FlagsIdle

SpecManager == InitManager /\ [][ManagerNext]_vars

FlagsNext ==
    CallAccessors /\ UNCHANGED <<ck_vars, dec_vars, cn_vars, st_vars, cs_vars, mg_vars>>

InitFlags == FlagsInit /\ ChecksumIdle /\ DecodeIdle /\ ConnectIdle /\ StreamIdle
        /\ ConsumerIdle /\ ManagerIdle

SpecFlags == InitFlags /\ [][FlagsNext]_vars

=============================================================================
